---- MODULE Spec2Model ----
(***************************************************************************)
(* The offline queues of the ONXLink backend, modelled from the source:    *)
(*                                                                         *)
(*   database     DatabaseManager's sync_queue (backend/app/database.py)   *)
(*   offline      utils.OfflineManager (backend/app/utils.py)              *)
(*   social       api/social.py SocialService's offline post queue         *)
(*   analytics    OfflineAnalyticsQueue / FirebaseAnalyticsService         *)
(*                (backend/app/services/firebase_service.py)               *)
(*   content      OfflineContentManager's post queue and SocialService.    *)
(*                process_offline_queue (services/social_service.py)       *)
(*   cache        DatabaseManager.cache_set / cache_get and                *)
(*                utils.CacheManager                                       *)
(*                                                                         *)
(* The subsystems share no state.  A behaviour exercises one of them, *)
(* chosen in the initial state (variable subsystem), so that the reachable *)
(* states are the union, not the product, of their state spaces.           *)
(*                                                                         *)
(* Coroutines of one event loop interleave only at an await, so one action *)
(* is the code between two awaits.                                         *)
(***************************************************************************)
EXTENDS Integers, Sequences, FiniteSets, TLC

\* ---------------------------------------------------------------- bounds
\* Coroutines that call into DatabaseManager concurrently.
NumTasks == 2
\* Rows ever inserted into sync_queue.
MaxRows == 2
\* Saturation of the per-row count of successful remote applications.
MaxApplied == 2
\* Entries of OfflineManager.queue, rows of offline_queue, and attempts
\* recorded per row.
MaxOmQueue == 2
MaxOmRows == 2
MaxOmAttempts == 2
\* post_data records ever built by api/social.py _queue_offline_post.
MaxPosts == 3
\* track_event calls, and the stand-ins for get_unsynced_events' limit (100)
\* and batch_size (50).
MaxEvents == 3
SyncLimit == 2
BatchSize == 2

\* Concurrent queue_for_publishing calls, queue items created in all (a post
\* is named by the id of its first item), and publish attempts counted per post.
NumCqTasks == 2
MaxCqItems == 3
MaxCqAttempts == 4

\* sync_queue.max_retries INTEGER DEFAULT 3 (queue_sync_operation never sets it).
MaxRetries == 3
\* get_unsynced_events: WHERE synced = 0 AND sync_attempts < 5
MaxSyncAttempts == 5
\* queue_for_publishing: "max_retries": 3
MaxPostRetries == 3
\* Documents counted per event in the Firestore collection (the count saturates).
MaxDocs == 2
\* Paddle event_time values of the alerts delivered for the subscription.
MaxEventTime == 4
\* Items handle_offline_sync queues on offline_sync_queue.
MaxSyncItems == 3

Tasks == 1..NumTasks
\* (table_name, operation, record_id, data) of a queue_sync_operation call.
OpKeys == {"op_a", "op_b"}

VARIABLES
    subsystem,          \* which subsystem this behaviour exercises
    \* ---- DatabaseManager
    db_initialized,     \* initialize() has run
    is_offline_mode,    \* DatabaseManager.is_offline_mode
    offline_db_ready,   \* the SQLite file holds the sync_queue table
    remote_up,          \* the main (remote) database is reachable
    sync_queue,         \* committed rows of sync_queue, by id
    write_lock,         \* task whose connection holds SQLite's write lock, or 0
    txn_rows,           \* the lock holder's uncommitted view of sync_queue
    task,               \* each coroutine's position in _process_sync_queue
    remote_applied,     \* id -> successful _execute_sync_operation calls
    last_return,        \* what the last completed call returned
    \* ---- utils.OfflineManager
    om_queue,           \* OfflineManager.queue, the in-memory deque
    om_table,           \* rows of the offline_queue table
    om_run,             \* position of process_queue (holder of sync_lock)
    om_ran,             \* a process_queue call has completed since the start
    \* ---- api/social.py SocialService
    so_queue,           \* SocialService.offline_queue, the in-memory asyncio.Queue
    so_redis,           \* the Redis list offline_posts:{user_id}, head first
    so_connected,       \* the user has an active connected account
    so_next,            \* number of post_data records built so far
    so_run,             \* position of process_offline_queue
    so_ran,             \* a process_offline_queue call has completed since the start
    so_post,            \* status of one SocialPost row
    so_retry,           \* what the last re-attempt of retry_failed_posts came to
    \* ---- FirebaseAnalyticsService / OfflineAnalyticsQueue
    fa_db,              \* FirebaseAnalyticsService.db is set (Firestore client)
    fa_docs,            \* per tracked event: its documents in the Firestore collection
    fa_now,             \* the clock behind CURRENT_TIMESTAMP, in seconds; only the
                        \* seconds in which an event was stored are counted
    fa_events,          \* rows of analytics_events, by id
    fa_tracked,         \* number of track_event calls so far
    fa_batch,           \* FirebaseAnalyticsService.batch_events
    fa_sync,            \* position of _sync_offline_events
    \* services/social_service.py OfflineContentManager / SocialService
    cq_file,            \* post_queue.json: the queue of the user, as _load_queue reads it
    cq_task,            \* per queue_for_publishing call: its position and loaded queue
    cq_next,            \* queue ids handed out so far
    cq_run,             \* position of process_offline_queue
    cq_attempts,        \* per post: publish attempts made by process_offline_queue
    cq_last,            \* what the last finished process_offline_queue run did
    \* DatabaseManager's cache and utils.CacheManager, for one key
    ca_started,         \* the process has built and initialised its managers
    ca_redis_up,        \* the Redis server is reachable
    ca_client,          \* DatabaseManager.async_redis_client is set
    ca_table,           \* the app_cache table exists in the offline database file
    ca_redis,           \* the key's unexpired value in Redis as DatabaseManager wrote it
    ca_app_cache,       \* the key's unexpired value in app_cache
    cm_client,          \* CacheManager.redis_client is set
    cm_redis,           \* the key's unexpired value in Redis as CacheManager wrote it
    cm_local,           \* the key's unexpired value in CacheManager.local_cache
    ca_result,          \* the last cache call and what it returned
    \* PaymentService, for one Paddle subscription
    py_tier,            \* user_subscriptions.tier
    py_status,          \* user_subscriptions.status, "none" without a row
    py_period_start,    \* user_subscriptions.current_period_start
    py_features,        \* tier of the cached offline_features entry
    py_newest,          \* greatest event_time of the webhooks applied to the row
    py_result,          \* 'status' returned by the last webhook handler
    py_cache,           \* status held by the 'subscription:{user_id}' Redis entry
    py_got,             \* how the last get_user_subscription_status call ended
    \* main.py: the Redis list offline_sync_queue
    sq_list,            \* the list, head first; an item is the number it was queued as
    sq_next,            \* items queued so far
    sq_pass,            \* position of process_offline_sync_queue in its pass
    sq_result           \* per item: how process_sync_item last ended for it

dbVars == <<db_initialized, is_offline_mode, offline_db_ready, remote_up,
            sync_queue, write_lock, txn_rows, task, remote_applied, last_return>>

omVars == <<om_queue, om_table, om_run, om_ran>>

soVars == <<so_queue, so_redis, so_connected, so_next, so_run, so_ran, so_post, so_retry>>

faVars == <<fa_db, fa_docs, fa_now, fa_events, fa_tracked, fa_batch, fa_sync>>

cqVars == <<cq_file, cq_task, cq_next, cq_run, cq_attempts, cq_last>>

caVars == <<ca_started, ca_redis_up, ca_client, ca_table, ca_redis, ca_app_cache,
            cm_client, cm_redis, cm_local, ca_result>>

pyVars == <<py_tier, py_status, py_period_start, py_features, py_newest, py_result,
            py_cache, py_got>>

sqVars == <<sq_list, sq_next, sq_pass, sq_result>>

vars == <<subsystem, dbVars, omVars, soVars, faVars, cqVars, caVars, pyVars, sqVars>>

\* ------------------------------------------------------- DatabaseManager

IdleTask == [pc |-> "idle", rows |-> <<>>, idx |-> 0, via_queue |-> FALSE]

\* DatabaseManager.__init__
InitDB ==
    /\ db_initialized = FALSE
    /\ is_offline_mode = FALSE
    /\ offline_db_ready = FALSE
    /\ remote_up = TRUE
    /\ sync_queue = <<>>
    /\ write_lock = 0
    /\ txn_rows = <<>>
    /\ task = [p \in Tasks |-> IdleTask]
    /\ remote_applied = [i \in 1..MaxRows |-> 0]
    /\ last_return = "none"

\* A step of the database subsystem leaves the other subsystems alone.
DBStep == subsystem = "database" /\ UNCHANGED <<subsystem, omVars, soVars, faVars, cqVars, caVars, pyVars, sqVars>>

\* The remote database becomes unreachable or reachable again.
RemoteChange ==
    /\ DBStep
    /\ db_initialized
    /\ remote_up' = ~remote_up
    /\ UNCHANGED <<db_initialized, is_offline_mode, offline_db_ready, sync_queue,
                   write_lock, txn_rows, task, remote_applied, last_return>>

\* initialize(): "main_failed" is _setup_main_database raising (the offline
\* database is then never set up), "test_failed" is _test_connections raising,
\* "ok" is every step succeeding.  Any failure ends in _enable_offline_mode.
Initialize(outcome) ==
    /\ DBStep
    /\ ~db_initialized
    /\ outcome = "ok" => remote_up
    /\ db_initialized' = TRUE
    /\ is_offline_mode' = (outcome # "ok")
    /\ offline_db_ready' = (outcome # "main_failed")
    /\ UNCHANGED <<remote_up, sync_queue, write_lock, txn_rows, task,
                   remote_applied, last_return>>

\* SELECT * FROM sync_queue WHERE status = 'pending' AND retry_count < max_retries
\* ORDER BY created_at: the committed rows (another connection's open
\* transaction is invisible), oldest first.
RECURSIVE SelectPending(_, _)
SelectPending(rows, i) ==
    IF i > Len(rows) THEN <<>>
    ELSE LET rest == SelectPending(rows, i + 1)
         IN IF rows[i].status = "pending" /\ rows[i].retry_count < rows[i].max_retries
            THEN <<[id |-> i, retry_count |-> rows[i].retry_count,
                    max_retries |-> rows[i].max_retries]>> \o rest
            ELSE rest

\* _process_sync_queue without its offline guard (lines 435-436 removed).
ProcessStart_NoOfflineGuard(p, rows, viaQueue) ==
    LET sel == SelectPending(rows, 1)
    IN IF sel = <<>>
       THEN /\ task' = [task EXCEPT ![p] = IdleTask]
            /\ last_return' = IF viaQueue THEN "queue_true" ELSE "process_done"
       ELSE /\ task' = [task EXCEPT ![p] =
                   [pc |-> "exec", rows |-> sel, idx |-> 1, via_queue |-> viaQueue]]
            /\ UNCHANGED last_return

\* _process_sync_queue up to its first await: the offline guard, the SELECT,
\* and the call of _execute_sync_operation for the first row.  With no row
\* the loop is skipped and the (empty) transaction commits.
ProcessStart(p, rows, viaQueue) ==
    IF is_offline_mode
    THEN /\ task' = [task EXCEPT ![p] = IdleTask]
         /\ last_return' = IF viaQueue THEN "queue_true" ELSE "process_offline"
    ELSE IF ~offline_db_ready
    THEN /\ task' = [task EXCEPT ![p] = IdleTask]
         /\ last_return' = IF viaQueue THEN "queue_true" ELSE "process_error"
    ELSE LET sel == SelectPending(rows, 1)
         IN IF sel = <<>>
            THEN /\ task' = [task EXCEPT ![p] = IdleTask]
                 /\ last_return' = IF viaQueue THEN "queue_true" ELSE "process_done"
            ELSE /\ task' = [task EXCEPT ![p] =
                        [pc |-> "exec", rows |-> sel, idx |-> 1, via_queue |-> viaQueue]]
                 /\ UNCHANGED last_return

\* A direct run of _process_sync_queue.
ProcessSyncQueue(p) ==
    /\ DBStep
    /\ db_initialized
    /\ task[p].pc = "idle"
    /\ ProcessStart(p, sync_queue, FALSE)
    /\ UNCHANGED <<db_initialized, is_offline_mode, offline_db_ready, remote_up,
                   sync_queue, write_lock, txn_rows, remote_applied>>

NewRow(key) ==
    [key |-> key, retry_count |-> 0, max_retries |-> MaxRetries,
     status |-> "pending", queued_online |-> ~is_offline_mode]

\* queue_sync_operation: INSERT and commit on a connection of its own, then,
\* unless offline, _process_sync_queue.  The INSERT raises "database is
\* locked" while another connection holds the write lock (the busy wait blocks
\* the event loop, so the holder cannot release it), and "no such table" when
\* the offline database was never set up; either way the call returns False.
QueueSyncOperation(p, key) ==
    /\ DBStep
    /\ db_initialized
    /\ task[p].pc = "idle"
    /\ Len(sync_queue) < MaxRows
    /\ IF write_lock # 0 \/ ~offline_db_ready
       THEN /\ last_return' = "queue_false"
            /\ UNCHANGED <<sync_queue, task>>
       ELSE /\ sync_queue' = Append(sync_queue, NewRow(key))
            /\ IF is_offline_mode
               THEN /\ last_return' = "queue_true"
                    /\ UNCHANGED task
               ELSE ProcessStart(p, sync_queue', TRUE)
    /\ UNCHANGED <<db_initialized, is_offline_mode, offline_db_ready, remote_up,
                   write_lock, txn_rows, remote_applied>>

\* The two UPDATEs of the except branch: retry_count = retry_count + 1 on the
\* stored row, then status = 'failed' if the row as SELECTed had
\* retry_count + 1 >= max_retries.
MarkFailure(rows, snap) ==
    LET bumped == [rows EXCEPT ![snap.id].retry_count = @ + 1]
    IN IF snap.retry_count + 1 >= snap.max_retries
       THEN [bumped EXCEPT ![snap.id].status = "failed"]
       ELSE bumped

\* UPDATE sync_queue SET status = 'synced' WHERE id = ?
MarkSynced(rows, snap) == [rows EXCEPT ![snap.id].status = "synced"]

Applied(id, ok) ==
    IF ok /\ remote_applied[id] < MaxApplied
    THEN [remote_applied EXCEPT ![id] = @ + 1]
    ELSE remote_applied

\* The awaited _execute_sync_operation of task p returns (ok) or raises.  The
\* UPDATE that follows opens this connection's transaction and takes the write
\* lock; if another connection holds it the UPDATE raises, the UPDATE of the
\* except branch raises too, and the run ends in the outer handler with its
\* connection dropped.  After the last row the transaction commits.
ExecuteReturn(p, ok) ==
    /\ DBStep
    /\ task[p].pc = "exec"
    /\ ok => remote_up
    /\ LET snap == task[p].rows[task[p].idx]
           base == IF write_lock = p THEN txn_rows ELSE sync_queue
           new  == IF ok THEN MarkSynced(base, snap) ELSE MarkFailure(base, snap)
           last == task[p].idx = Len(task[p].rows)
       IN /\ remote_applied' = Applied(snap.id, ok)
          /\ IF write_lock \notin {0, p}
             THEN /\ task' = [task EXCEPT ![p] = IdleTask]
                  /\ last_return' = IF task[p].via_queue THEN "queue_true"
                                     ELSE "process_error"
                  /\ UNCHANGED <<sync_queue, write_lock, txn_rows>>
             ELSE IF last
             THEN /\ sync_queue' = new
                  /\ write_lock' = 0
                  /\ txn_rows' = <<>>
                  /\ task' = [task EXCEPT ![p] = IdleTask]
                  /\ last_return' = IF task[p].via_queue THEN "queue_true"
                                     ELSE "process_done"
             ELSE /\ txn_rows' = new
                  /\ write_lock' = p
                  /\ task' = [task EXCEPT ![p].idx = @ + 1]
                  /\ UNCHANGED <<sync_queue, last_return>>
    /\ UNCHANGED <<db_initialized, is_offline_mode, offline_db_ready, remote_up>>

\* health_check: the main database is tested only when not in offline mode;
\* Redis (redisOk) and the offline database are tested always.  Nothing is
\* written, is_offline_mode included.
HealthCheck(redisOk) ==
    /\ DBStep
    /\ db_initialized
    /\ last_return' = IF (is_offline_mode \/ remote_up) /\ redisOk
                      THEN "health_healthy" ELSE "health_unhealthy"
    /\ UNCHANGED <<db_initialized, is_offline_mode, offline_db_ready, remote_up,
                   sync_queue, write_lock, txn_rows, task, remote_applied>>

NextDB ==
    \/ \E outcome \in {"ok", "test_failed", "main_failed"} : Initialize(outcome)
    \/ RemoteChange
    \/ \E p \in Tasks, key \in OpKeys : QueueSyncOperation(p, key)
    \/ \E p \in Tasks : ProcessSyncQueue(p)
    \/ \E p \in Tasks, ok \in BOOLEAN : ExecuteReturn(p, ok)
    \/ \E redisOk \in BOOLEAN : HealthCheck(redisOk)

\* ------------------------------------------------- utils.OfflineManager

\* (action, data) of a queue_action call.
ActionKeys == {"act_a", "act_b"}

OmIdle == [pc |-> "idle", cur |-> "none"]

\* OfflineManager.__init__: an empty deque; the offline_queue table is empty
\* on a first start.
InitOM ==
    /\ om_queue = <<>>
    /\ om_table = <<>>
    /\ om_run = OmIdle
    /\ om_ran = FALSE

OMStep == subsystem = "offline" /\ UNCHANGED <<subsystem, dbVars, soVars, faVars, cqVars, caVars, pyVars, sqVars>>

RECURSIVE OmDelete(_, _)
\* DELETE FROM offline_queue WHERE action = $1 AND data = $2
OmDelete(rows, key) ==
    IF rows = <<>> THEN <<>>
    ELSE IF Head(rows).key = key THEN OmDelete(Tail(rows), key)
         ELSE <<Head(rows)>> \o OmDelete(Tail(rows), key)

\* _increment_attempt: UPDATE offline_queue SET attempts = attempts + 1
\* WHERE action = $1 AND data = $2.  A row it touches has been dispatched in
\* this process (stale is cleared).  The column is never read; the count
\* kept here stops at MaxOmAttempts.
OmIncrement(rows, key) ==
    [i \in 1..Len(rows) |->
        IF rows[i].key = key
        THEN [rows[i] EXCEPT !.attempts = IF @ < MaxOmAttempts THEN @ + 1 ELSE @,
                             !.stale = FALSE]
        ELSE rows[i]]

\* queue_action: append to the deque, then INSERT.  A failing INSERT (dbOk
\* false) is logged and the call returns normally.
QueueAction(key, dbOk) ==
    /\ OMStep
    /\ Len(om_queue) < MaxOmQueue
    /\ Len(om_table) < MaxOmRows
    /\ om_queue' = Append(om_queue, key)
    /\ om_table' = IF dbOk
                   THEN Append(om_table, [key |-> key, attempts |-> 0, stale |-> FALSE])
                   ELSE om_table
    /\ UNCHANGED <<om_run, om_ran>>

\* The head of the while loop of process_queue: leave when the deque is
\* empty, else popleft and await _execute_action.
OmLoop(queue) ==
    IF queue = <<>>
    THEN /\ om_queue' = queue
         /\ om_run' = OmIdle
         /\ om_ran' = TRUE
    ELSE /\ om_queue' = Tail(queue)
         /\ om_run' = [pc |-> "exec", cur |-> Head(queue)]
         /\ UNCHANGED om_ran

\* process_queue called: sync_lock is free exactly when no call is running.
ProcessQueue ==
    /\ OMStep
    /\ om_run.pc = "idle"
    /\ OmLoop(om_queue)
    /\ UNCHANGED om_table

\* _execute_action returns True ("true"), returns False ("false") or raises
\* ("raise"); dbOk is whether the statements on self.db that follow succeed.
\* A statement failing inside the try runs the except branch, which requeues
\* and calls _increment_attempt; that one failing too leaves process_queue
\* with the exception (sync_lock is released by the async with).
ExecuteActionReturn(outcome, dbOk) ==
    /\ OMStep
    /\ om_run.pc = "exec"
    /\ LET cur == om_run.cur
           requeued == Append(om_queue, cur)
       IN IF outcome = "true"
          THEN IF dbOk
               THEN /\ om_table' = OmDelete(om_table, cur)
                    /\ OmLoop(om_queue)
               ELSE /\ Len(requeued) <= MaxOmQueue
                    /\ om_queue' = requeued
                    /\ om_run' = OmIdle
                    /\ UNCHANGED <<om_table, om_ran>>
          ELSE IF dbOk
                  THEN /\ om_table' = OmIncrement(om_table, cur)
                       /\ OmLoop(requeued)
                  ELSE /\ om_queue' = IF outcome = "false"
                                      THEN Append(requeued, cur) ELSE requeued
                       /\ Len(om_queue') <= MaxOmQueue
                       /\ om_run' = OmIdle
                       /\ UNCHANGED <<om_table, om_ran>>

\* The process stops and starts again: a new OfflineManager with an empty
\* deque; the offline_queue table is kept, and nothing reads it back.
OmRestart ==
    /\ OMStep
    /\ om_queue' = <<>>
    /\ om_run' = OmIdle
    /\ om_ran' = FALSE
    /\ om_table' = [i \in 1..Len(om_table) |-> [om_table[i] EXCEPT !.stale = TRUE]]

NextOM ==
    \/ \E key \in ActionKeys, dbOk \in BOOLEAN : QueueAction(key, dbOk)
    \/ ProcessQueue
    \/ \E outcome \in {"true", "false", "raise"}, dbOk \in BOOLEAN :
          ExecuteActionReturn(outcome, dbOk)
    \/ OmRestart

\* ------------------------------------------- api/social.py SocialService

SoIdle == [pc |-> "idle", cur |-> 0]

\* SocialService.__init__: an empty asyncio.Queue.
InitSO ==
    /\ so_queue = <<>>
    /\ so_redis = <<>>
    /\ so_connected = FALSE
    /\ so_next = 0
    /\ so_run = SoIdle
    /\ so_ran = FALSE
    /\ so_post = "published"
    /\ so_retry = "none"

SOStep == subsystem = "social" /\ UNCHANGED <<subsystem, dbVars, omVars, faVars, cqVars, caVars, pyVars, sqVars>>

\* The user connects or disconnects an account (_get_connected_accounts).
ConnectChange ==
    /\ SOStep
    /\ so_connected' = ~so_connected
    /\ UNCHANGED <<so_queue, so_redis, so_next, so_run, so_ran, so_post, so_retry>>

\* redis lpush of a new post_data; queued_at makes every post_data distinct.
SoPush(list, id, redisOk) ==
    IF redisOk THEN <<[id |-> id, stale |-> FALSE]>> \o list ELSE list

RECURSIVE SoRemove(_, _)
\* redis lrem(key, 1, value): the first element equal to value, from the head.
SoRemove(list, id) ==
    IF list = <<>> THEN <<>>
    ELSE IF Head(list).id = id THEN Tail(list)
         ELSE <<Head(list)>> \o SoRemove(Tail(list), id)

\* create_multi_platform_post for a user with no connected account:
\* _queue_offline_post puts the post_data on the in-memory queue and then
\* lpushes it; a failing lpush is caught by create_multi_platform_post.
QueueOfflinePost(redisOk) ==
    /\ SOStep
    /\ ~so_connected
    /\ so_next < MaxPosts
    /\ so_next' = so_next + 1
    /\ so_queue' = Append(so_queue, so_next')
    /\ so_redis' = SoPush(so_redis, so_next', redisOk)
    /\ UNCHANGED <<so_connected, so_run, so_ran, so_post, so_retry>>

\* The head of the while loop of process_offline_queue.
SoLoop(queue) ==
    IF queue = <<>>
    THEN /\ so_queue' = queue
         /\ so_run' = SoIdle
         /\ so_ran' = TRUE
    ELSE /\ so_queue' = Tail(queue)
         /\ so_run' = [pc |-> "post", cur |-> Head(queue)]
         /\ UNCHANGED so_ran

ProcessOfflineQueue ==
    /\ SOStep
    /\ so_run.pc = "idle"
    /\ SoLoop(so_queue)
    /\ UNCHANGED <<so_redis, so_connected, so_next, so_post, so_retry>>

\* The awaited create_multi_platform_post returns, or raises before its own
\* try (raised): then nothing is removed.  With no connected account, and
\* when _publish_post fails (published false: its except branch calls
\* _queue_offline_post), the post is queued again as a new post_data; then
\* lrem removes the processed one.  A failing Redis call (redisOk false) is
\* caught and the loop goes on.
PostReturn(raised, published, redisOk) ==
    /\ SOStep
    /\ so_run.pc = "post"
    /\ LET cur == so_run.cur
       IN IF raised
          THEN /\ SoLoop(so_queue)
               /\ UNCHANGED <<so_redis, so_next>>
          ELSE IF so_connected /\ published
          THEN /\ so_redis' = IF redisOk THEN SoRemove(so_redis, cur) ELSE so_redis
               /\ SoLoop(so_queue)
               /\ UNCHANGED so_next
          ELSE /\ so_next < MaxPosts
               /\ so_next' = so_next + 1
               /\ so_redis' = IF redisOk
                              THEN SoRemove(SoPush(so_redis, so_next', TRUE), cur)
                              ELSE so_redis
               /\ SoLoop(Append(so_queue, so_next'))
    /\ UNCHANGED <<so_connected, so_post, so_retry>>

\* _delete_post fails for the SocialPost: its except branch stores FAILED.
DeletePostFails ==
    /\ SOStep
    /\ so_post = "published"
    /\ so_post' = "failed"
    /\ UNCHANGED <<so_queue, so_redis, so_connected, so_next, so_run, so_ran, so_retry>>

\* What the re-attempt of retry_failed_posts does for the post:
\*   "raised"         the try body raises (PlatformType(post.platform),
\*                    PostContent(...), or the commit)
\*   "success_false"  create_multi_platform_post returns success False from
\*                    its outer handler (sanitize_input, validate_url, ...)
\*   "error_result"   _schedule_post raises: the platform result is 'error'
\*   "publish_failed" _publish_post fails and queues the post offline
\*   "published"      _publish_post stores a new PUBLISHED SocialPost
RetryAttempts ==
    {"raised", "success_false", "error_result", "publish_failed", "published"}

\* What the re-attempt came to: with no connected account
\* create_multi_platform_post queues the post offline before anything else.
RetryResult(attempt) ==
    IF attempt \in {"raised", "success_false"} THEN attempt
    ELSE IF ~so_connected THEN "queued_offline"
    ELSE attempt

\* retry_failed_posts for the FAILED post: the re-attempt, then
\* post.status = PUBLISHING and commit; FAILED again only in the except branch.
RetryFailedPosts(attempt, redisOk) ==
    /\ so_post = "failed"
    /\ SOStep
    /\ LET result == RetryResult(attempt)
       IN /\ so_retry' = result
          /\ so_post' = IF result = "raised" THEN "failed" ELSE "publishing"
          /\ IF result \in {"queued_offline", "publish_failed"}
             THEN /\ so_next < MaxPosts
                  /\ so_next' = so_next + 1
                  /\ so_queue' = Append(so_queue, so_next')
                  /\ so_redis' = SoPush(so_redis, so_next', redisOk)
             ELSE UNCHANGED <<so_queue, so_redis, so_next>>
    /\ UNCHANGED <<so_connected, so_run, so_ran>>

\* The process stops and starts again: a new SocialService with an empty
\* asyncio.Queue; the Redis list is kept, and nothing reads it back.
SoRestart ==
    /\ SOStep
    /\ so_queue' = <<>>
    /\ so_run' = SoIdle
    /\ so_ran' = FALSE
    /\ so_redis' = [i \in 1..Len(so_redis) |-> [so_redis[i] EXCEPT !.stale = TRUE]]
    /\ UNCHANGED <<so_connected, so_next, so_post, so_retry>>

NextSO ==
    \/ ConnectChange
    \/ \E redisOk \in BOOLEAN : QueueOfflinePost(redisOk)
    \/ ProcessOfflineQueue
    \/ \E raised, published, redisOk \in BOOLEAN : PostReturn(raised, published, redisOk)
    \/ SoRestart
    \/ DeletePostFails
    \/ \E attempt \in RetryAttempts, redisOk \in BOOLEAN : RetryFailedPosts(attempt, redisOk)

\* ------------------------ FirebaseAnalyticsService / OfflineAnalyticsQueue

\* The event types tracked here: one of high priority, one of the lowest.
EventTypes == {"user_registered", "content_generated"}

\* OfflineAnalyticsQueue._get_event_priority
EventPriority(etype) ==
    IF etype = "user_registered" THEN 3
    ELSE IF etype = "subscription_cancelled" THEN 2
    ELSE 1

FaIdle == [pc |-> "idle", ids |-> <<>>]

\* FirebaseAnalyticsService.__init__: _init_firebase either sets db or logs
\* and leaves it None.
InitFA ==
    /\ fa_db \in BOOLEAN
    /\ fa_docs = [e \in 1..MaxEvents |-> 0]
    /\ fa_now = 0
    /\ fa_events = <<>>
    /\ fa_tracked = 0
    /\ fa_batch = <<>>
    /\ fa_sync = FaIdle

FAStep == subsystem = "analytics" /\ UNCHANGED <<subsystem, dbVars, omVars, soVars, cqVars, caVars, pyVars, sqVars>>

\* WHERE synced = 0, without the sync_attempts < 5 condition.
FaSelectable_NoAttemptLimit(events) ==
    {i \in 1..Len(events) : ~events[i].synced}

\* WHERE synced = 0 AND sync_attempts < 5
FaSelectable(events) ==
    {i \in 1..Len(events) : ~events[i].synced /\ events[i].sync_attempts < MaxSyncAttempts}

\* ORDER BY priority ASC, created_at ASC.
FaBefore_PriorityAscending(a, b) ==
    \/ a.priority < b.priority
    \/ a.priority = b.priority /\ a.created_at < b.created_at

\* ORDER BY priority DESC, created_at ASC: a strictly before b.
FaBefore(a, b) ==
    \/ a.priority > b.priority
    \/ a.priority = b.priority /\ a.created_at < b.created_at

\* The orders the ORDER BY allows: rows equal in priority and created_at (a
\* timestamp in seconds) come in any order.
FaOrderings(events) ==
    LET ids == FaSelectable(events)
        n == Cardinality(ids)
    IN {s \in [1..n -> ids] :
          /\ \A i, j \in 1..n : i # j => s[i] # s[j]
          /\ \A i, j \in 1..n : i < j => ~FaBefore(events[s[j]], events[s[i]])}

FaMin(a, b) == IF a < b THEN a ELSE b

\* get_unsynced_events(limit): the first limit rows of the ordering, then the
\* rows whose event_data fails to decrypt are skipped.
GetUnsyncedEvents(events, limit) ==
    {LET cut == SubSeq(s, 1, FaMin(limit, Len(s)))
         Decrypts(i) == events[i].decrypt_ok
     IN SelectSeq(cut, Decrypts) : s \in FaOrderings(events)}

SeqRange(s) == {s[i] : i \in 1..Len(s)}

\* _send_to_firebase_batch: every event of the batch is set on a new
\* document reference (collection_ref.document()), all in one commit.
SendToFirebaseBatch(docs, evs) ==
    [e \in 1..MaxEvents |->
        IF e \in evs /\ docs[e] < MaxDocs THEN docs[e] + 1 ELSE docs[e]]

\* _process_batch_events: send the batch to Firestore if db is set (a failed
\* commit only returns False), then clear it.
FaFlush(batch, sendOk) ==
    /\ fa_batch' = <<>>
    /\ fa_docs' = IF fa_db /\ sendOk
                  THEN SendToFirebaseBatch(fa_docs, SeqRange(batch))
                  ELSE fa_docs

\* track_event.  The clock may have advanced (tick).  result is "ok" (the
\* call returns True) or "fail_before", an exception before store_event (the
\* call returns False); an exception after the batch step also returns False
\* and leaves the state of "ok".  store_event returning False (storeOk false)
\* is ignored.  Online events join batch_events, which is flushed at
\* batch_size.
TrackEvent(etype, offline, tick, storeOk, decryptOk, sendOk, result) ==
    /\ fa_tracked < MaxEvents
    /\ FAStep
    /\ fa_tracked' = fa_tracked + 1
    /\ fa_now' = IF tick /\ \E i \in 1..Len(fa_events) : fa_events[i].created_at = fa_now
                 THEN fa_now + 1 ELSE fa_now
    /\ IF result = "fail_before"
       THEN UNCHANGED <<fa_events, fa_batch, fa_docs>>
       ELSE /\ fa_events' =
                 IF storeOk
                 THEN Append(fa_events,
                        [ev |-> fa_tracked', priority |-> EventPriority(etype),
                         created_at |-> fa_now', synced |-> FALSE,
                         sync_attempts |-> 0, decrypt_ok |-> decryptOk])
                 ELSE fa_events
            /\ IF offline
               THEN UNCHANGED <<fa_batch, fa_docs>>
               ELSE IF Len(fa_batch) + 1 >= BatchSize
               THEN FaFlush(Append(fa_batch, fa_tracked'), sendOk)
               ELSE fa_batch' = Append(fa_batch, fa_tracked') /\ UNCHANGED fa_docs
    /\ UNCHANGED <<fa_db, fa_sync>>

\* The scheduled _process_batch_events.
ProcessBatchEvents(sendOk) ==
    /\ FAStep
    /\ fa_batch # <<>>
    /\ FaFlush(fa_batch, sendOk)
    /\ UNCHANGED <<fa_db, fa_now, fa_events, fa_tracked, fa_sync>>

\* _sync_offline_events up to the Firestore commit: nothing to send, or db
\* unset ("keeping events offline"), ends the run with nothing written.
SyncOfflineEvents ==
    /\ FAStep
    /\ fa_sync.pc = "idle"
    /\ \E ids \in GetUnsyncedEvents(fa_events, SyncLimit) :
          fa_sync' = IF ids # <<>> /\ fa_db
                     THEN [pc |-> "send", ids |-> ids]
                     ELSE FaIdle
    /\ UNCHANGED <<fa_db, fa_docs, fa_now, fa_events, fa_tracked, fa_batch>>

\* mark_synced: SET synced = 1, sync_attempts = sync_attempts + 1
FaMarkSynced(events, ids) ==
    [i \in 1..Len(events) |->
        IF i \in ids
        THEN [events[i] EXCEPT !.synced = TRUE, !.sync_attempts = @ + 1]
        ELSE events[i]]

\* increment_sync_attempts: SET sync_attempts = sync_attempts + 1
FaIncrementAttempts(events, ids) ==
    [i \in 1..Len(events) |->
        IF i \in ids THEN [events[i] EXCEPT !.sync_attempts = @ + 1] ELSE events[i]]

\* The Firestore commit of _sync_offline_events returns: mark_synced on
\* success, increment_sync_attempts otherwise.
SyncSendReturn(sendOk) ==
    /\ FAStep
    /\ fa_sync.pc = "send"
    /\ LET ids == SeqRange(fa_sync.ids)
       IN /\ fa_events' = IF sendOk
                          THEN FaMarkSynced(fa_events, ids)
                          ELSE FaIncrementAttempts(fa_events, ids)
          /\ fa_docs' = IF sendOk
                        THEN SendToFirebaseBatch(fa_docs, {fa_events[i].ev : i \in ids})
                        ELSE fa_docs
    /\ fa_sync' = FaIdle
    /\ UNCHANGED <<fa_db, fa_now, fa_tracked, fa_batch>>

NextFA ==
    \/ \E etype \in EventTypes, offline, tick, storeOk, decryptOk, sendOk \in BOOLEAN,
          result \in {"ok", "fail_before"} :
          TrackEvent(etype, offline, tick, storeOk, decryptOk, sendOk, result)
    \/ \E sendOk \in BOOLEAN : ProcessBatchEvents(sendOk)
    \/ SyncOfflineEvents
    \/ \E sendOk \in BOOLEAN : SyncSendReturn(sendOk)

\* ------------- services/social_service.py: OfflineContentManager's queue

CqTasks == 1..NumCqTasks

CqIdleTask == [pc |-> "idle", queue |-> <<>>, post |-> 0, serializable |-> TRUE]

CqIdleRun == [pc |-> "idle", queue |-> <<>>, idx |-> 0]

\* OfflineContentManager.__init__ / SocialService.__init__: no queue file yet.
InitCQ ==
    /\ cq_file = <<>>
    /\ cq_task = [t \in CqTasks |-> CqIdleTask]
    /\ cq_next = 0
    /\ cq_run = CqIdleRun
    /\ cq_attempts = [post \in 1..MaxCqItems |-> 0]
    /\ cq_last = [returned |-> FALSE, error |-> FALSE, permanent |-> {},
                  succeeded |-> {}]

CQStep == subsystem = "content" /\ UNCHANGED <<subsystem, dbVars, omVars, soVars, faVars, caVars, pyVars, sqVars>>

\* queue_item of queue_for_publishing: a new uuid, retry_count 0.
QueueItem(id, post) == [id |-> id, post |-> post, retry_count |-> 0]

\* _save_queue: the file is opened for writing, which empties it, and the
\* queue is written as JSON.  json.dumps raises TypeError for a post whose
\* to_dict() holds Enum members (platform: PlatformType, the default status
\* PostStatus.DRAFT), after the file was emptied; _load_queue then reads {}.
SaveQueue(queue, serializable) == IF serializable THEN queue ELSE <<>>

\* queue_for_publishing up to the return of _load_queue: the call holds the
\* queue it loaded.  serializable tells whether the post's fields are plain
\* JSON values (as in a post rebuilt from the queue file) or Enum members.
QueueForPublishingLoad(t, serializable) ==
    /\ cq_task[t].pc = "idle"
    /\ cq_next < MaxCqItems
    /\ CQStep
    /\ cq_next' = cq_next + 1
    /\ cq_task' = [cq_task EXCEPT ![t] =
          [pc |-> "save", queue |-> cq_file, post |-> cq_next',
           serializable |-> serializable]]
    /\ UNCHANGED <<cq_file, cq_run, cq_attempts, cq_last>>

\* queue_for_publishing from the append to its return: the loaded queue with
\* the new item is saved over the file.
QueueForPublishingSave(t) ==
    /\ cq_task[t].pc = "save"
    /\ CQStep
    /\ cq_file' = SaveQueue(
          Append(cq_task[t].queue, QueueItem(cq_task[t].post, cq_task[t].post)),
          cq_task[t].serializable)
    /\ cq_task' = [cq_task EXCEPT ![t] = CqIdleTask]
    /\ UNCHANGED <<cq_next, cq_run, cq_attempts, cq_last>>

\* The end of process_offline_queue.  updated_queue is assigned nowhere in the
\* function, so "queue[user_id] = updated_queue" raises NameError: the outer
\* handler returns the error result and _save_queue is never reached.
CqFinish(permanent, succeeded) ==
    /\ cq_run' = CqIdleRun
    /\ cq_last' = [returned |-> TRUE, error |-> TRUE, permanent |-> permanent,
                   succeeded |-> succeeded]

\* process_offline_queue up to its first await of publish_to_platforms.
ContentProcessOfflineQueue ==
    /\ cq_run.pc = "idle"
    /\ CQStep
    /\ IF cq_file = <<>>
       THEN CqFinish({}, {})
       ELSE /\ cq_run' = [pc |-> "publish", queue |-> cq_file, idx |-> 1]
            /\ cq_last' = [returned |-> FALSE, error |-> FALSE, permanent |-> {},
                           succeeded |-> {}]
    /\ UNCHANGED <<cq_file, cq_task, cq_next, cq_attempts>>

\* What publish_to_platforms does for the queued post:
\*   "success"        the platform result has success True
\*   "no_success"     the result has success False (platform not connected)
\*   "network"        the platform call raised a network or timeout error,
\*                    which publish_to_platforms turns into success False
\*                    after calling queue_for_publishing for the post
\*   "service_error"  publish_to_platforms raised SocialServiceError
\*   "timeout_raised" it raised another exception naming network or timeout
\*   "other_error"    it raised any other exception
PublishOutcomes ==
    {"success", "no_success", "network", "service_error", "timeout_raised", "other_error"}

\* Outcomes after which the loop reaches updated_queue.append(queue_item)
\* inside an except clause (retry_count + 1 < max_retries): the NameError
\* leaves the loop and ends the run in the outer handler.
CqAborts(outcome, item) ==
    /\ outcome \in {"service_error", "timeout_raised"}
    /\ item.retry_count + 1 < MaxPostRetries

\* The awaited publish_to_platforms returns or raises for the current item.
\* In the try body the NameError of updated_queue.append is caught by
\* "except Exception" and counted as failed; the loop goes on.  The retry
\* count is incremented on the loaded item only.  A network failure inside
\* publish_to_platforms has queued the post again: load, append an item with
\* a new id and retry_count 0, save.
PublishReturn(outcome) ==
    /\ cq_run.pc = "publish"
    /\ outcome = "network" => cq_next < MaxCqItems
    /\ CQStep
    /\ LET item == cq_run.queue[cq_run.idx]
           last == cq_run.idx = Len(cq_run.queue)
           permanent == IF outcome \in {"service_error", "other_error"}
                        THEN cq_last.permanent \cup {item.id}
                        ELSE cq_last.permanent
           succeeded == IF outcome = "success"
                        THEN cq_last.succeeded \cup {item.id}
                        ELSE cq_last.succeeded
       IN /\ cq_attempts' = [cq_attempts EXCEPT ![item.post] =
                                IF @ < MaxCqAttempts THEN @ + 1 ELSE @]
          /\ IF outcome = "network"
             THEN /\ cq_next' = cq_next + 1
                  /\ cq_file' = Append(cq_file, QueueItem(cq_next', item.post))
             ELSE UNCHANGED <<cq_file, cq_next>>
          /\ IF last \/ CqAborts(outcome, item)
             THEN CqFinish(permanent, succeeded)
             ELSE /\ cq_run' = [cq_run EXCEPT !.idx = @ + 1]
                  /\ cq_last' = [cq_last EXCEPT !.permanent = permanent,
                                                !.succeeded = succeeded]
    /\ UNCHANGED cq_task

NextCQ ==
    \/ \E t \in CqTasks, serializable \in BOOLEAN : QueueForPublishingLoad(t, serializable)
    \/ \E t \in CqTasks : QueueForPublishingSave(t)
    \/ ContentProcessOfflineQueue
    \/ \E outcome \in PublishOutcomes : PublishReturn(outcome)

\* ------------------ DatabaseManager cache_set / cache_get, CacheManager

\* The values cached under the key; "none" is no unexpired entry.
CacheValues == {"v1", "v2"}

Managers == {"DatabaseManager", "CacheManager"}

\* No process yet; the stores are empty.
InitCA ==
    /\ ca_started = FALSE
    /\ ca_redis_up = TRUE
    /\ ca_client = FALSE
    /\ ca_table = FALSE
    /\ ca_redis = "none"
    /\ ca_app_cache = "none"
    /\ cm_client = FALSE
    /\ cm_redis = "none"
    /\ cm_local = "none"
    /\ ca_result = [op |-> "none", manager |-> "none", value |-> "none"]

CAStep ==
    subsystem = "cache" /\ UNCHANGED <<subsystem, dbVars, omVars, soVars, faVars, cqVars, pyVars, sqVars>>

\* The Redis server becomes unreachable or reachable again.
RedisChange ==
    /\ ca_started
    /\ CAStep
    /\ ca_redis_up' = ~ca_redis_up
    /\ UNCHANGED <<ca_started, ca_client, ca_table, ca_redis, ca_app_cache,
                   cm_client, cm_redis, cm_local, ca_result>>

\* Start of the process.  DatabaseManager.initialize: if _setup_main_database
\* raises (mainOk false) neither Redis nor the offline database is set up.
\* Otherwise _setup_redis_cache assigns the client and pings: a failed ping
\* raising RedisConnectionError (connErr) resets the client to None and
\* initialize goes on to _setup_offline_database, which creates the tables;
\* any other error leaves the client assigned and ends initialize before the
\* tables are created.  CacheManager(redis_url): the client is assigned when
\* a url is given; a failed ping is only logged.
CacheStart(mainOk, connErr, url) ==
    /\ ~ca_started
    /\ CAStep
    /\ ca_started' = TRUE
    /\ ca_client' = (mainOk /\ (ca_redis_up \/ ~connErr))
    /\ ca_table' = (ca_table \/ (mainOk /\ (ca_redis_up \/ connErr)))
    /\ cm_client' = url
    /\ UNCHANGED <<ca_redis_up, ca_redis, ca_app_cache, cm_redis, cm_local, ca_result>>

\* The process stops: the clients and local_cache are gone; Redis and the
\* offline database file stay.
CacheRestart ==
    /\ ca_started
    /\ CAStep
    /\ ca_started' = FALSE
    /\ ca_client' = FALSE
    /\ cm_client' = FALSE
    /\ cm_local' = "none"
    /\ ca_result' = [op |-> "none", manager |-> "none", value |-> "none"]
    /\ UNCHANGED <<ca_redis_up, ca_table, ca_redis, ca_app_cache, cm_redis>>

\* The TTL of the key's entries elapses: setex entries leave Redis, the
\* app_cache row no longer matches expires_at > now, the local_cache entry is
\* past its expiry.
TtlElapses ==
    /\ ca_started
    /\ \E store \in {ca_redis, ca_app_cache, cm_redis, cm_local} : store # "none"
    /\ CAStep
    /\ ca_redis' = "none"
    /\ ca_app_cache' = "none"
    /\ cm_redis' = "none"
    /\ cm_local' = "none"
    /\ UNCHANGED <<ca_started, ca_redis_up, ca_client, ca_table, cm_client, ca_result>>

CaReturn(op, manager, value) == [op |-> op, manager |-> manager, value |-> value]

\* DatabaseManager.cache_set: with a Redis client, setex and return True (an
\* unreachable server raises: return False); without one, _offline_cache_set.
DbCacheSet(v) ==
    /\ IF ca_client
       THEN /\ ca_redis' = IF ca_redis_up THEN v ELSE ca_redis
            /\ ca_result' = CaReturn("set", "DatabaseManager",
                                     IF ca_redis_up THEN "true" ELSE "false")
            /\ UNCHANGED ca_app_cache
       ELSE /\ ca_app_cache' = IF ca_table THEN v ELSE ca_app_cache
            /\ ca_result' = CaReturn("set", "DatabaseManager",
                                     IF ca_table THEN "true" ELSE "false")
            /\ UNCHANGED ca_redis
    /\ UNCHANGED <<cm_redis, cm_local>>

\* CacheManager.set: with a Redis client, setex and return True (False when
\* it raises); without one, local_cache.
CmSet(v) ==
    /\ IF cm_client
       THEN /\ cm_redis' = IF ca_redis_up THEN v ELSE cm_redis
            /\ ca_result' = CaReturn("set", "CacheManager",
                                     IF ca_redis_up THEN "true" ELSE "false")
            /\ UNCHANGED cm_local
       ELSE /\ cm_local' = v
            /\ ca_result' = CaReturn("set", "CacheManager", "true")
            /\ UNCHANGED cm_redis
    /\ UNCHANGED <<ca_redis, ca_app_cache>>

CacheSet(manager, v) ==
    /\ ca_started
    /\ CAStep
    /\ IF manager = "DatabaseManager" THEN DbCacheSet(v) ELSE CmSet(v)
    /\ UNCHANGED <<ca_started, ca_redis_up, ca_client, ca_table, cm_client>>

\* DatabaseManager.cache_get: with a Redis client the answer is Redis's (None
\* on a miss, None when the call raises); _offline_cache_get is used only
\* without a client.
DbCacheGet ==
    IF ca_client
    THEN IF ca_redis_up THEN ca_redis ELSE "none"
    ELSE IF ca_table THEN ca_app_cache ELSE "none"

\* CacheManager.get: Redis first when a client is set; on a miss, or without
\* a client, local_cache; None when the Redis call raises.
CmGet ==
    IF cm_client /\ ~ca_redis_up THEN "none"
    ELSE IF cm_client /\ cm_redis # "none" THEN cm_redis
    ELSE cm_local

CacheGet(manager) ==
    /\ ca_started
    /\ CAStep
    /\ ca_result' = CaReturn("get", manager,
                             IF manager = "DatabaseManager" THEN DbCacheGet ELSE CmGet)
    /\ UNCHANGED <<ca_started, ca_redis_up, ca_client, ca_table, ca_redis,
                   ca_app_cache, cm_client, cm_redis, cm_local>>

NextCA ==
    \/ \E mainOk, connErr, url \in BOOLEAN : CacheStart(mainOk, connErr, url)
    \/ CacheRestart
    \/ RedisChange
    \/ TtlElapses
    \/ \E manager \in Managers, v \in CacheValues : CacheSet(manager, v)
    \/ \E manager \in Managers : CacheGet(manager)

\* -------------------------------------------------------- PaymentService
\*
\* One Paddle subscription of one user.  py_status is the status column of its
\* user_subscriptions row ("none" while the row does not exist), py_tier and
\* py_period_start the tier and current_period_start columns, py_features the
\* tier of the offline_features cache entry.  py_newest is the greatest
\* event_time among the webhooks applied to the row so far, and py_result the
\* 'status' of the dictionary the last handler returned.

Tiers == {"premium", "enterprise"}

\* the values of 'status' a subscription_updated alert carries
UpdateStatuses == {"active", "paused"}

EventTimes == 1..MaxEventTime

PyMax(a, b) == IF a > b THEN a ELSE b

InitPY ==
    /\ py_tier = "none"
    /\ py_status = "none"
    /\ py_period_start = 0
    /\ py_features = "none"
    /\ py_newest = 0
    /\ py_result = "none"
    /\ py_cache = "none"
    /\ py_got = [from |-> "none", status |-> "none", stored |-> "none"]

PYStep ==
    subsystem = "payment"
       /\ UNCHANGED <<subsystem, dbVars, omVars, soVars, faVars, cqVars, caVars, sqVars>>

\* _handle_subscription_created_paddle: INSERT ... ON CONFLICT DO UPDATE.
HandleSubscriptionCreatedPaddle(valid, tier, time) ==
    /\ PYStep
    /\ UNCHANGED <<py_cache, py_got>>
    /\ IF ~valid
         THEN /\ py_result' = "error"
              /\ UNCHANGED <<py_tier, py_status, py_period_start, py_features, py_newest>>
         ELSE /\ py_tier' = tier
              /\ py_status' = "active"
              /\ py_period_start' = time
              /\ py_features' = tier
              /\ py_newest' = PyMax(py_newest, time)
              /\ py_result' = "success"

\* _handle_subscription_updated_paddle: UPDATE ... WHERE platform_subscription_id.
HandleSubscriptionUpdatedPaddle(valid, tier, new_status, time) ==
    /\ PYStep
    /\ UNCHANGED <<py_cache, py_got>>
    /\ IF ~valid
         THEN /\ py_result' = "error"
              /\ UNCHANGED <<py_tier, py_status, py_period_start, py_features, py_newest>>
         ELSE /\ IF py_status # "none"
                   THEN /\ py_tier' = tier
                        /\ py_status' = new_status
                        /\ py_period_start' = time
                        /\ py_newest' = PyMax(py_newest, time)
                   ELSE UNCHANGED <<py_tier, py_status, py_period_start, py_newest>>
              /\ py_features' = tier
              /\ py_result' = "success"

\* The UPDATE of _handle_subscription_cancelled_paddle and of
\* _handle_payment_failed_paddle: SET status = <literal>.
SetStatus(status, time) ==
    /\ IF py_status # "none"
         THEN /\ py_status' = status
              /\ py_newest' = PyMax(py_newest, time)
         ELSE UNCHANGED <<py_status, py_newest>>
    /\ py_result' = "success"
    /\ UNCHANGED <<py_tier, py_period_start, py_features>>

\* _handle_subscription_cancelled_paddle
HandleSubscriptionCancelledPaddle(time) ==
    /\ PYStep
    /\ UNCHANGED <<py_cache, py_got>>
    /\ SetStatus("canceled", time)

\* _handle_payment_failed_paddle
HandlePaymentFailedPaddle(time) ==
    /\ PYStep
    /\ UNCHANGED <<py_cache, py_got>>
    /\ SetStatus("past_due", time)

\* The UPDATE of _handle_cancellation_revenuecat and of
\* _handle_expiration_revenuecat on the subscription's row.
RevenuecatSetStatus(status) ==
    /\ py_status # "none"
    /\ py_status' = status
    /\ py_result' = "success"
    /\ UNCHANGED <<py_tier, py_period_start, py_features, py_newest, py_cache, py_got>>

\* _handle_cancellation_revenuecat
HandleCancellationRevenuecat ==
    /\ PYStep
    /\ RevenuecatSetStatus("canceled")

\* _handle_expiration_revenuecat
HandleExpirationRevenuecat ==
    /\ PYStep
    /\ RevenuecatSetStatus("expired")

\* "Cache for future requests", with a subscription.dict() that returns the
\* dictionary: setex stores the entry and the call returns the subscription.
CacheSubscription_DictSucceeds(status) ==
    [cache |-> status, from |-> "db", status |-> status]

\* "Cache for future requests": subscription.dict(default=str) raises
\* TypeError, since BaseModel.dict has no parameter named default; nothing
\* is stored under the cache key and the call ends with the exception.
CacheSubscription(status) ==
    [cache |-> py_cache, from |-> "raised", status |-> "none"]

\* get_user_subscription_status.  cacheValid: the cached entry decrypts and
\* its current_period_end is in the future.  Otherwise the row is read if
\* its status is 'active' or 'past_due', and without such a row the freemium
\* status is returned.
GetUserSubscriptionStatus(cacheValid) ==
    /\ PYStep
    /\ IF py_cache # "none" /\ cacheValid
       THEN /\ py_got' = [from |-> "cache", status |-> py_cache, stored |-> py_status]
            /\ UNCHANGED py_cache
       ELSE IF py_status \in {"active", "past_due"}
       THEN LET r == CacheSubscription(py_status)
            IN /\ py_cache' = r.cache
               /\ py_got' = [from |-> r.from, status |-> r.status, stored |-> py_status]
       ELSE /\ py_got' = [from |-> "freemium", status |-> "active", stored |-> py_status]
            /\ UNCHANGED py_cache
    /\ UNCHANGED <<py_tier, py_status, py_period_start, py_features, py_newest, py_result>>

\* handle_paddle_webhook / handle_revenuecat_webhook: alerts are delivered in
\* any order and may be delivered again.
NextPY ==
    \/ \E valid \in BOOLEAN, tier \in Tiers, time \in EventTimes :
          HandleSubscriptionCreatedPaddle(valid, tier, time)
    \/ \E valid \in BOOLEAN, tier \in Tiers, new_status \in UpdateStatuses,
          time \in EventTimes :
          HandleSubscriptionUpdatedPaddle(valid, tier, new_status, time)
    \/ \E time \in EventTimes : HandleSubscriptionCancelledPaddle(time)
    \/ \E time \in EventTimes : HandlePaymentFailedPaddle(time)
    \/ HandleCancellationRevenuecat
    \/ HandleExpirationRevenuecat
    \/ \E cacheValid \in BOOLEAN : GetUserSubscriptionStatus(cacheValid)

\* ------------------------------------------ main.py: offline_sync_queue

SyncItems == 1..MaxSyncItems

SqIdle == [pc |-> "sleep", items |-> <<>>, idx |-> 0]

\* startup: the background task is created and sleeps; the list is empty.
InitSQ ==
    /\ sq_list = <<>>
    /\ sq_next = 0
    /\ sq_pass = SqIdle
    /\ sq_result = [i \in SyncItems |-> "none"]

SQStep ==
    subsystem = "sync"
       /\ UNCHANGED <<subsystem, dbVars, omVars, soVars, faVars, cqVars, caVars, pyVars>>

\* LPUSH offline_sync_queue item: the item becomes the head of the list.
LPush(list, item) == <<item>> \o list

RECURSIVE LRem(_, _)
\* LREM offline_sync_queue 1 item: the first element equal to item, searching
\* from the head, is removed.
LRem(list, item) ==
    IF list = <<>> THEN <<>>
    ELSE IF Head(list) = item THEN Tail(list)
    ELSE <<Head(list)>> \o LRem(Tail(list), item)

\* handle_offline_sync for one item of offline_items: sync_timestamp makes
\* the JSON text of each item its own.
HandleOfflineSync ==
    /\ sq_next < MaxSyncItems
    /\ SQStep
    /\ sq_next' = sq_next + 1
    /\ sq_list' = LPush(sq_list, sq_next')
    /\ UNCHANGED <<sq_pass, sq_result>>

\* process_offline_sync_queue wakes from its sleep: LRANGE 0 -1 copies the
\* list head first, and process_sync_item is awaited for the first element.
\* redisOk FALSE is the LRANGE raising: the outer handler logs and sleeps.
ProcessOfflineSyncQueue(redisOk) ==
    /\ sq_pass.pc = "sleep"
    /\ SQStep
    /\ sq_pass' = IF redisOk /\ sq_list # <<>>
                  THEN [pc |-> "item", items |-> sq_list, idx |-> 1]
                  ELSE SqIdle
    /\ UNCHANGED <<sq_list, sq_next, sq_result>>

\* process_sync_item returns for the current element.  It catches every
\* exception of its body (handled FALSE) and returns None either way, so the
\* caller goes on to LREM; lremOk FALSE is the LREM raising, which the
\* handler in the loop logs.  Then the next element, or the sleep.
ProcessSyncItem(handled, lremOk) ==
    /\ sq_pass.pc = "item"
    /\ SQStep
    /\ LET item == sq_pass.items[sq_pass.idx]
       IN /\ sq_result' = [sq_result EXCEPT ![item] =
                              IF handled THEN "handled" ELSE "error_logged"]
          /\ sq_list' = IF lremOk THEN LRem(sq_list, item) ELSE sq_list
    /\ sq_pass' = IF sq_pass.idx < Len(sq_pass.items)
                  THEN [sq_pass EXCEPT !.idx = @ + 1]
                  ELSE SqIdle
    /\ UNCHANGED sq_next

NextSQ ==
    \/ HandleOfflineSync
    \/ \E redisOk \in BOOLEAN : ProcessOfflineSyncQueue(redisOk)
    \/ \E handled, lremOk \in BOOLEAN : ProcessSyncItem(handled, lremOk)

\* ------------------------------------------------------- specifications

InitAll == InitDB /\ InitOM /\ InitSO /\ InitFA /\ InitCQ /\ InitCA /\ InitPY /\ InitSQ

Init ==
    /\ subsystem \in {"database", "offline", "social", "analytics", "content", "cache",
                      "payment", "sync"}
    /\ InitAll
    /\ subsystem # "analytics" => ~fa_db

Next == NextDB \/ NextOM \/ NextSO \/ NextFA \/ NextCQ \/ NextCA \/ NextPY \/ NextSQ

Spec == Init /\ [][Next]_vars

InitDatabase == subsystem = "database" /\ InitAll /\ ~fa_db

SpecDB == InitDatabase /\ [][NextDB]_vars

\* The event loop resumes every coroutine whose awaited call has returned, and
\* _process_sync_queue keeps being run.
FairDB ==
    /\ \A p \in Tasks : WF_vars(\E ok \in BOOLEAN : ExecuteReturn(p, ok))
    /\ WF_vars(\E p \in Tasks : ProcessSyncQueue(p))

SpecDBFair == InitDatabase /\ [][NextDB]_vars /\ FairDB

InitOffline == subsystem = "offline" /\ InitAll /\ ~fa_db

SpecOM == InitOffline /\ [][NextOM]_vars

\* The awaited _execute_action of a running process_queue returns or raises.
FairOM ==
    WF_vars(\E outcome \in {"true", "false", "raise"}, dbOk \in BOOLEAN :
               ExecuteActionReturn(outcome, dbOk))

SpecOMFair == InitOffline /\ [][NextOM]_vars /\ FairOM

InitSocial == subsystem = "social" /\ InitAll /\ ~fa_db

SpecSO == InitSocial /\ [][NextSO]_vars

InitAnalytics == subsystem = "analytics" /\ InitAll

SpecFA == InitAnalytics /\ [][NextFA]_vars

InitContent == subsystem = "content" /\ InitAll /\ ~fa_db

SpecCQ == InitContent /\ [][NextCQ]_vars

InitCache == subsystem = "cache" /\ InitAll /\ ~fa_db

SpecCA == InitCache /\ [][NextCA]_vars

InitPayment == subsystem = "payment" /\ InitAll /\ ~fa_db

SpecPY == InitPayment /\ [][NextPY]_vars

InitSync == subsystem = "sync" /\ InitAll /\ ~fa_db

SpecSQ == InitSync /\ [][NextSQ]_vars


\* --------------------------------------------------------------- claims

Terminal(row) == row.status \in {"synced", "failed"}

\* C1: every sync_queue row has retry_count <= max_retries, and its status is
\* 'failed' exactly when retry_count has reached max_retries.
C1_RetryBound ==
    \A i \in 1..Len(sync_queue) :
        /\ sync_queue[i].retry_count <= sync_queue[i].max_retries
        /\ sync_queue[i].status = "failed"
              <=> sync_queue[i].retry_count = sync_queue[i].max_retries

\* C2: every row inserted while is_offline_mode was false eventually has
\* status 'synced' or 'failed', given that _process_sync_queue keeps being run.
C2_EventuallyTerminal ==
    \A i \in 1..MaxRows :
        (i <= Len(sync_queue) /\ sync_queue[i].queued_online)
            ~> (i <= Len(sync_queue) /\ Terminal(sync_queue[i]))

\* C3: of two rows queued with the same table_name, operation, record_id and
\* data, at most one is successfully applied to the remote database.
C3_AppliedOncePerKey ==
    \A i, j \in 1..Len(sync_queue) :
        (i < j /\ sync_queue[i].key = sync_queue[j].key)
            => ~(remote_applied[i] >= 1 /\ remote_applied[j] >= 1)

\* C4: two overlapping _process_sync_queue runs never execute the same row:
\* no two tasks are inside _execute_sync_operation for one row id.
C4_NoDoubleClaim ==
    \A p, q \in Tasks :
        (p # q /\ task[p].pc = "exec" /\ task[q].pc = "exec")
            => task[p].rows[task[p].idx].id # task[q].rows[task[q].idx].id

\* C5: after a restart, once the first process_queue / process_offline_queue
\* run has completed, no entry persisted before the restart is left
\* undispatched in the offline_queue table or the offline_posts list.
C5_RecoveredAfterRestart ==
    /\ om_ran => \A i \in 1..Len(om_table) : ~om_table[i].stale
    /\ so_ran => \A i \in 1..Len(so_redis) : ~so_redis[i].stale

\* C6: an enqueue that reports success (queue_action returning normally,
\* track_event returning True) has put its entry into the persistent store.
C6_DurableBeforeReturn ==
    [][ /\ \A key \in ActionKeys :
              (\E dbOk \in BOOLEAN : QueueAction(key, dbOk))
                 => /\ Len(om_table') = Len(om_table) + 1
                    /\ om_table'[Len(om_table')].key = key
        /\ (\E etype \in EventTypes, offline, tick, storeOk, decryptOk, sendOk \in BOOLEAN :
                TrackEvent(etype, offline, tick, storeOk, decryptOk, sendOk, "ok"))
              => /\ Len(fa_events') = Len(fa_events) + 1
                 /\ fa_events'[Len(fa_events')].ev = fa_tracked'
      ]_vars

\* An unsynced event that get_unsynced_events can return.
C7_Eligible(i) ==
    /\ ~fa_events[i].synced
    /\ fa_events[i].sync_attempts < MaxSyncAttempts
    /\ fa_events[i].decrypt_ok

\* a must not come after b: higher priority, or equal priority and older.
C7_Precedes(a, b) ==
    \/ a.priority > b.priority
    \/ a.priority = b.priority /\ a.created_at < b.created_at

\* C7: the batch _sync_offline_events takes from get_unsynced_events is in
\* priority-descending order, oldest created_at first among equal priorities,
\* and no eligible event left out of it precedes an event in it.
C7_BatchInPriorityOrder ==
    [][ (fa_sync.pc = "idle" /\ fa_sync'.pc = "send")
          => LET ids == fa_sync'.ids
                 in_batch == {ids[k] : k \in 1..Len(ids)}
             IN /\ \A k, l \in 1..Len(ids) :
                      k < l => ~C7_Precedes(fa_events[ids[l]], fa_events[ids[k]])
                /\ \A e \in 1..Len(fa_events), b \in in_batch :
                      (C7_Eligible(e) /\ e \notin in_batch)
                         => ~C7_Precedes(fa_events[e], fa_events[b])
      ]_vars

\* A batch of two events of different priority, sent while an eligible event
\* of the lower priority waits outside it.
C7_Witness ==
    /\ fa_sync.pc = "send"
    /\ Len(fa_sync.ids) = 2
    /\ fa_events[fa_sync.ids[1]].priority > fa_events[fa_sync.ids[2]].priority
    /\ \E e \in 1..Len(fa_events) :
          /\ e \notin {fa_sync.ids[1], fa_sync.ids[2]}
          /\ C7_Eligible(e)
          /\ fa_events[e].sync_attempts = 0

\* C8: once a row is 'synced' or 'failed', no step changes its status or its
\* retry_count.
C8_TerminalIsFinal ==
    [][ \A i \in 1..Len(sync_queue) :
            Terminal(sync_queue[i])
               => /\ sync_queue'[i].status = sync_queue[i].status
                  /\ sync_queue'[i].retry_count = sync_queue[i].retry_count
      ]_vars

\* C9: after offline mode was entered, a health check that succeeds while the
\* remote database is reachable has re-enabled dispatch (is_offline_mode is
\* false again).
C9_HealthCheckReenables ==
    (last_return = "health_healthy" /\ remote_up) => ~is_offline_mode

\* C10: while the remote is known to be unavailable (is_offline_mode true;
\* FirebaseAnalyticsService.db unset) no step, a dispatch run included, makes
\* a remote apply call or changes a queued entry: no task enters
\* _execute_sync_operation, no Firestore commit is started, and every stored
\* row keeps its status and attempt counter.
C10_NoDispatchWhileUnavailable ==
    [][ /\ is_offline_mode
           => /\ \A i \in 1..Len(sync_queue) : sync_queue'[i] = sync_queue[i]
              /\ remote_applied' = remote_applied
              /\ \A p \in Tasks : task'[p].pc = "idle"
        /\ ~fa_db
           => /\ \A i \in 1..Len(fa_events) : fa_events'[i] = fa_events[i]
              /\ fa_sync'.pc = "idle"
      ]_vars

\* A direct _process_sync_queue run has returned at the offline guard with a
\* pending row in the queue.
C10_Witness ==
    /\ is_offline_mode
    /\ last_return = "process_offline"
    /\ \E i \in 1..Len(sync_queue) :
          sync_queue[i].status = "pending" /\ sync_queue[i].retry_count = 0

\* C16: every tracked event has at most one document in the Firestore
\* collection, whichever of _process_batch_events and _sync_offline_events
\* sent it and however often it was sent.
C16_AtMostOneDocument ==
    \A e \in 1..MaxEvents : fa_docs[e] <= 1

\* C19: no event's sync_attempts exceeds 5, and every event in a batch being
\* sent by _sync_offline_events had sync_attempts below 5 when it was taken.
C19_SyncAttemptsBounded ==
    /\ \A i \in 1..Len(fa_events) : fa_events[i].sync_attempts <= MaxSyncAttempts
    /\ fa_sync.pc = "send"
          => \A k \in 1..Len(fa_sync.ids) :
                fa_events[fa_sync.ids[k]].sync_attempts < MaxSyncAttempts

\* A batch is being sent while a decryptable, unsynced event that has used up
\* its 5 attempts stays outside it.
C19_Witness ==
    /\ fa_sync.pc = "send"
    /\ \E i \in 1..Len(fa_events) :
          /\ ~fa_events[i].synced
          /\ fa_events[i].decrypt_ok
          /\ fa_events[i].sync_attempts = MaxSyncAttempts
          /\ \A k \in 1..Len(fa_sync.ids) : fa_sync.ids[k] # i

\* C11: once process_offline_queue has returned, no item whose dispatch failed
\* with a permanent error in that run (SocialServiceError or another
\* non-network exception) is still in the persisted queue.
C11_PermanentFailureDropped ==
    cq_last.returned
       => \A i \in 1..Len(cq_file) : cq_file[i].id \notin cq_last.permanent

\* C17: a queue_for_publishing call that saves its item only appends: the
\* persisted queue afterwards is the persisted queue before with the call's
\* item at its end, whatever other calls are in progress.
C17_EnqueueOnlyAppends ==
    [][ \A t \in CqTasks :
           (QueueForPublishingSave(t) /\ cq_task[t].serializable)
              => cq_file' = Append(cq_file, QueueItem(cq_task[t].post, cq_task[t].post))
      ]_vars

\* C20: process_offline_queue attempts a post at most max_retries times in
\* all, the queue never holds two entries for one post, and between runs an
\* entry with retry_count 0 belongs to a post that was never attempted.
C20_AttemptsBounded ==
    /\ \A post \in 1..MaxCqItems : cq_attempts[post] <= MaxPostRetries
    /\ \A i, j \in 1..Len(cq_file) : i < j => cq_file[i].post # cq_file[j].post
    /\ cq_run.pc = "idle"
          => \A i \in 1..Len(cq_file) :
                cq_file[i].retry_count = 0 => cq_attempts[cq_file[i].post] = 0

\* The key's unexpired value in the local fallback store of a manager.
C13_Local(manager) ==
    IF manager = "DatabaseManager" THEN ca_app_cache ELSE cm_local

\* C13: when cache_set / CacheManager.set returns True, the value is in the
\* manager's local fallback store (app_cache, local_cache), with or without
\* a Redis client.
C13_SetWritesLocal ==
    [][ \A manager \in Managers, v \in CacheValues :
           (CacheSet(manager, v) /\ ca_result'.value = "true")
              => (IF manager = "DatabaseManager" THEN ca_app_cache' ELSE cm_local') = v
      ]_vars

\* C14: a cache_get / CacheManager.get made while the local fallback store
\* holds an unexpired value, and Redis is not consulted, misses or is
\* unreachable, returns that value.
C14_GetFallsBackToLocal ==
    [][ \A manager \in Managers :
           LET client == IF manager = "DatabaseManager" THEN ca_client ELSE cm_client
               remote == IF manager = "DatabaseManager" THEN ca_redis ELSE cm_redis
           IN (/\ CacheGet(manager)
               /\ C13_Local(manager) # "none"
               /\ ~client \/ ~ca_redis_up \/ remote = "none")
                 => ca_result'.value = C13_Local(manager)
      ]_vars

\* C15: a subscription_updated, subscription_cancelled or payment_failed
\* webhook whose event_time is older than that of a webhook already applied to
\* the stored subscription leaves the stored status as it is and is answered
\* as needing manual resolution.
C15_StaleWebhookKeepsNewer ==
    [][ \A time \in EventTimes :
           ( /\ py_status # "none"
             /\ time < py_newest
             /\ \/ \E tier \in Tiers, new_status \in UpdateStatuses :
                      HandleSubscriptionUpdatedPaddle(TRUE, tier, new_status, time)
                \/ HandleSubscriptionCancelledPaddle(time)
                \/ HandlePaymentFailedPaddle(time) )
              => (py_status' = py_status /\ py_result' = "manual_resolution")
      ]_vars

\* C18 (return value): a queue_sync_operation call whose INSERT committed
\* returns True, whether it returns at once or after its _process_sync_queue
\* run, and whatever the remote operations of that run did.
C18_ReturnsTrueOnceInserted ==
    [][ \A p \in Tasks :
           /\ (\E key \in OpKeys : QueueSyncOperation(p, key))
                 => ( /\ last_return' = "queue_false" => sync_queue' = sync_queue
                      /\ (Len(sync_queue') > Len(sync_queue) /\ task'[p].pc = "idle")
                            => last_return' = "queue_true" )
           /\ (task[p].pc = "exec" /\ task[p].via_queue /\ task'[p].pc = "idle")
                 => last_return' = "queue_true"
      ]_vars

\* C18: queue_sync_operation returns True whenever its INSERT committed, and a
\* remote operation that failed in its immediate _process_sync_queue run is
\* recorded on the queued row: when the call returns after a failed last
\* operation, the stored row's retry_count is above the one the run SELECTed.
C18_FailureOnlyOnRow ==
    [][ \A p \in Tasks :
           /\ (task[p].pc = "exec" /\ task[p].via_queue /\ task'[p].pc = "idle")
                 => last_return' = "queue_true"
           /\ (task[p].pc = "exec" /\ task[p].via_queue /\ task'[p].pc = "idle"
                  /\ ExecuteReturn(p, FALSE))
                 => LET snap == task[p].rows[task[p].idx]
                    IN sync_queue'[snap.id].retry_count > snap.retry_count
      ]_vars

\* C12: a failed attempt of an entry is not followed at once by another
\* attempt of that entry: when _execute_action fails for the only entry
\* process_queue has left, the handling of that failure does not start
\* _execute_action again.
C12_NoImmediateReattempt ==
    [][ \A outcome \in {"false", "raise"}, dbOk \in BOOLEAN :
           (om_queue = <<>> /\ ExecuteActionReturn(outcome, dbOk))
              => om_run'.pc # "exec"
      ]_vars

\* C21: once process_offline_queue has returned, no item whose publish
\* succeeded in that run is still in the persisted queue (where a later run
\* would load and publish it again).
C21_PublishedItemRemoved ==
    cq_last.returned
       => \A i \in 1..Len(cq_file) : cq_file[i].id \notin cq_last.succeeded

SqInList(item) == \E i \in 1..Len(sq_list) : sq_list[i] = item

\* C22: an item that left offline_sync_queue was handled by process_sync_item
\* without error; an item whose processing ended in an error is still in the
\* list.
C22_FailedItemStaysQueued ==
    \A item \in 1..sq_next :
        /\ ~SqInList(item) => sq_result[item] = "handled"
        /\ sq_result[item] = "error_logged" => SqInList(item)

\* C23: within one pass of process_offline_sync_queue the items are taken
\* oldest first: every item of the pass already processed was queued before
\* the one being processed.
C23_OldestFirst ==
    sq_pass.pc = "item"
       => \A i \in 1..(sq_pass.idx - 1) : sq_pass.items[i] < sq_pass.items[sq_pass.idx]

\* C24: a running process_queue call returns, whatever _execute_action does,
\* once no further action is queued while it runs.
C24_ProcessQueueTerminates ==
    (<>[][~(\E key \in ActionKeys, dbOk \in BOOLEAN : QueueAction(key, dbOk))]_vars)
       => ((om_run.pc = "exec") ~> (om_run.pc = "idle"))

\* C30: while process_queue is not running, every (action, data) entry is as
\* many times in the in-memory queue as it has rows in offline_queue.
C30_QueueMatchesTable ==
    om_run.pc = "idle"
       => \A key \in ActionKeys :
             Cardinality({i \in 1..Len(om_queue) : om_queue[i] = key})
                = Cardinality({i \in 1..Len(om_table) : om_table[i].key = key})

\* C30 (duplicates): a successful dispatch whose DELETE succeeds removes one
\* row of offline_queue.
C30_DeleteRemovesOneRow ==
    [][ (om_run.pc = "exec" /\ ExecuteActionReturn("true", TRUE)
           /\ \E i \in 1..Len(om_table) : om_table[i].key = om_run.cur)
          => Len(om_table') = Len(om_table) - 1
      ]_vars

\* The posts process_offline_queue still has to deal with: those waiting on
\* the in-memory queue and the one whose create_multi_platform_post is awaited.
SoOutstanding(queue, run) == Len(queue) + (IF run.pc = "post" THEN 1 ELSE 0)

\* C25: process_offline_queue terminates because every post it finishes
\* processing leaves fewer posts outstanding: the return of
\* create_multi_platform_post never puts a post back on the in-memory queue.
C25_ProcessingShrinksQueue ==
    [][ (\E raised, published, redisOk \in BOOLEAN : PostReturn(raised, published, redisOk))
           => SoOutstanding(so_queue', so_run') < SoOutstanding(so_queue, so_run)
      ]_vars

\* C27: the SocialPost is moved from FAILED to PUBLISHING by
\* retry_failed_posts only when the re-attempt published it.
C27_LeavesFailedOnlyIfPublished ==
    so_post = "publishing" => so_retry = "published"

\* C26: when a _process_sync_queue run ends, normally or through its error
\* handler, with the return of an _execute_sync_operation that applied its
\* row to the remote, that row is stored as 'synced'.
C26_AppliedRowStoredSynced ==
    [][ \A p \in Tasks :
           (task[p].pc = "exec" /\ task'[p].pc = "idle" /\ ExecuteReturn(p, TRUE)
              /\ LET snap == task[p].rows[task[p].idx]
                 IN remote_applied'[snap.id] > remote_applied[snap.id])
             => LET snap == task[p].rows[task[p].idx]
                IN sync_queue'[snap.id].status = "synced"
      ]_vars

\* C28: undecryptable events never keep a run of _sync_offline_events from
\* making progress: while Firebase is available and some stored event is
\* unsynced, within its attempt limit and decryptable, the batch
\* get_unsynced_events hands to the run is not empty.  (When it is empty the
\* run changes nothing, so every later run selects the same rows again.)
C28_SkippedEventsDoNotBlock ==
    (/\ fa_db
     /\ fa_sync.pc = "idle"
     /\ \E i \in FaSelectable(fa_events) : fa_events[i].decrypt_ok)
       => \E ids \in GetUnsyncedEvents(fa_events, SyncLimit) : ids # <<>>

====
